---- MODULE Spec2Model ----
(***************************************************************************)
(* The physical page allocator of kernel/kalloc.c: kinit, freerange,       *)
(* kfree/kfree1, kalloc and pa_to_pfn, run by NCPU harts over a manageable *)
(* range of NFrames page frames.                                           *)
(*                                                                         *)
(* Physical addresses are integers.  A frame's memory is a record          *)
(*   link : the first 8 bytes (where struct run keeps its next pointer),   *)
(*   body : the byte the remaining bytes are filled with.                  *)
(* A word made of eight equal fill bytes b is FillWord(b); TLC's integers  *)
(* are 32 bits wide, so the word is kept as its four low bytes: it has the *)
(* same residue modulo PGSIZE and also lies above PHYSTOP.                 *)
(***************************************************************************)
EXTENDS Integers, Sequences, FiniteSets, TLC

\* ------------------------------------------------------------ bounds
NCPU == 2
NFrames == 3
\* the most references the clients add to the frames they own
MaxShare == 1

\* the width in bits of the reader's unsigned integers (uint32 in the
\* code): their arithmetic wraps modulo 2^WordBits
WordBits == 4

\* ------------------------------------------------- program constants
PGSIZE == 4096
FreeFill == 1
AllocFill == 5
\* the bytes of a client's data: neither fill
DataFill == FreeFill + AllocFill + 1
\* first address after the kernel image (kernel.ld); not page-aligned
end == 12388

PGROUNDUP(a) == ((a + PGSIZE - 1) \div PGSIZE) * PGSIZE
end_pg == PGROUNDUP(end)
PHYSTOP == end_pg + NFrames * PGSIZE
NPAGES == NFrames

Wrap == 2 ^ WordBits
Word == 0 .. (Wrap - 1)
\* uint32 addition
AddW(a, b) == (a + b) % Wrap
Threads == 1 .. NCPU
BootCpu == 1
Frames == {end_pg + k * PGSIZE : k \in 0 .. (NFrames - 1)}
FillWord(b) == b * 16843009
\* what a client stores in the first word of a frame it owns
ClientWords == {end_pg}
\* arguments the clients pass to kfree when they do not keep to the contract
BadAddrs == {0, end_pg - PGSIZE, end, end_pg + 8, PHYSTOP, PHYSTOP + PGSIZE}
TestAddrs == Frames \cup BadAddrs

VARIABLES
  pc,        \* per hart: the statement it is at
  pa,        \* kfree1's argument pa
  dec,       \* kfree1's argument decrease_ref
  pfn,       \* local pfn of kfree1 / kalloc
  r,         \* kalloc's local r
  p,         \* freerange's local p
  i,         \* kinit's local i
  kmem,      \* [lock, freelist]
  pages,     \* the page descriptor table: pfn -> [ref, lock, init]
  mem,       \* frame memory: frame address -> [link, body]
  owners,    \* per frame: the ownership references its clients hold
  started,   \* kinit has returned and the other harts run
  lastfree,  \* the frame of the last completed push, 0 after a pop
  nshare,    \* the references the clients have added so far
  nmisuse,   \* the calls of kfree so far on a frame nobody owned
  panicked,  \* "none", or the message of the panic that halted the system
  reader,    \* struct dtb_reader: [index, end]
  dtbop      \* the call on the reader under way: [pc, n, i, start, last]

vars == <<pc, pa, dec, pfn, r, p, i, kmem, pages, mem, owners, started,
          lastfree, nshare, nmisuse, panicked, reader, dtbop>>
dtbvars == <<reader, dtbop>>
locals == <<pa, dec, pfn, r, p, i>>

Running == panicked = "none"

\* pa_to_pfn(pa): -1 stands for panic("pa_to_pfn")
pa_to_pfn(a) ==
  IF (a % PGSIZE) # 0 \/ a < end_pg \/ a > PHYSTOP
    THEN -1
    ELSE (a - end_pg) \div PGSIZE

\* The free list as kalloc would walk it from head through the next
\* links: the walk ends at 0, after an address that is no frame (its
\* memory is not modelled), or after n addresses.
RECURSIVE Chain(_, _, _)
Chain(head, m, n) ==
  IF n = 0 \/ head = 0
    THEN <<>>
    ELSE IF head \notin Frames
      THEN <<head>>
      ELSE <<head>> \o Chain(m[head].link, m, n - 1)

FreeSeq == Chain(kmem.freelist, mem, NFrames + 1)
OnFreeList(f) == \E k \in 1 .. Len(FreeSeq) : FreeSeq[k] = f
NoDup(s) == \A a, b \in 1 .. Len(s) : a # b => s[a] # s[b]
\* the reference count of the descriptor of frame f
Ref(f) == pages[(f - end_pg) \div PGSIZE].ref

\* no call on the reader is under way
DtbIdle == [pc |-> "idle", n |-> 0, i |-> 0, start |-> 0, last |-> -1]

InitAlloc ==
  /\ pc = [t \in Threads |-> IF t = BootCpu THEN "ki_initlock" ELSE "idle"]
  /\ pa = [t \in Threads |-> 0]
  /\ dec = [t \in Threads |-> 0]
  /\ pfn = [t \in Threads |-> 0]
  /\ r = [t \in Threads |-> 0]
  /\ p = 0
  /\ i = 0
  /\ kmem = [lock |-> 0, freelist |-> 0]
  /\ pages = [k \in 0 .. (NPAGES - 1) |-> [ref |-> 0, lock |-> 0, init |-> FALSE]]
  /\ mem = [f \in Frames |-> [link |-> 0, body |-> 0]]
  /\ owners = [f \in Frames |-> 0]
  /\ started = FALSE
  /\ lastfree = 0
  /\ nshare = 0
  /\ nmisuse = 0
  /\ panicked = "none"

Init ==
  /\ InitAlloc
  /\ reader = [index |-> 0, end |-> 0]
  /\ dtbop = DtbIdle

\* KfreeBadArg with the upper bound as pa > PHYSTOP
KfreeBadArgOffByOne(a) == (a % PGSIZE) # 0 \/ a < end \/ a > PHYSTOP

\* kfree1 line 87: the argument check
KfreeBadArg(a) == (a % PGSIZE) # 0 \/ a < end \/ a >= PHYSTOP

\* panic(msg) on hart t: the hart never leaves panic, and the system halts
Panic(t, msg) ==
  /\ panicked' = msg
  /\ pc' = [pc EXCEPT ![t] = "panic"]

\* ------------------------------------------------------------ kinit
\* kinit line 51: initlock(&kmem.lock, "kmem")
KiInitlock(t) ==
  /\ Running /\ pc[t] = "ki_initlock"
  /\ kmem' = [kmem EXCEPT !.lock = 0]
  /\ pc' = [pc EXCEPT ![t] = "fr_start"]
  /\ UNCHANGED <<locals, pages, mem, owners, started, lastfree, nshare, nmisuse, panicked, dtbvars>>

\* freerange line 65: p = PGROUNDUP(pa_start), called with (end, PHYSTOP)
FrStart(t) ==
  /\ Running /\ pc[t] = "fr_start"
  /\ p' = PGROUNDUP(end)
  /\ pc' = [pc EXCEPT ![t] = "fr_loop"]
  /\ UNCHANGED <<pa, dec, pfn, r, i, kmem, pages, mem, owners, started,
                 lastfree, nshare, nmisuse, panicked, dtbvars>>

\* FrLoop with the loop test as p + PGSIZE < pa_end
FrLoopStopsEarly(t) ==
  /\ Running /\ pc[t] = "fr_loop"
  /\ IF p + PGSIZE < PHYSTOP
       THEN /\ pa' = [pa EXCEPT ![t] = p]
            /\ dec' = [dec EXCEPT ![t] = 0]
            /\ pc' = [pc EXCEPT ![t] = "kf_check"]
            /\ i' = i
       ELSE /\ i' = 0
            /\ pc' = [pc EXCEPT ![t] = "ki_pages"]
            /\ UNCHANGED <<pa, dec>>
  /\ UNCHANGED <<pfn, r, p, kmem, pages, mem, owners, started, lastfree, nshare, nmisuse, panicked, dtbvars>>

\* freerange lines 66-67: the loop test and the call kfree1(p, 0);
\* when the loop ends kinit goes on at line 54 with i = 0
FrLoop(t) ==
  /\ Running /\ pc[t] = "fr_loop"
  /\ IF p + PGSIZE <= PHYSTOP
       THEN /\ pa' = [pa EXCEPT ![t] = p]
            /\ dec' = [dec EXCEPT ![t] = 0]
            /\ pc' = [pc EXCEPT ![t] = "kf_check"]
            /\ i' = i
       ELSE /\ i' = 0
            /\ pc' = [pc EXCEPT ![t] = "ki_pages"]
            /\ UNCHANGED <<pa, dec>>
  /\ UNCHANGED <<pfn, r, p, kmem, pages, mem, owners, started, lastfree, nshare, nmisuse, panicked, dtbvars>>

\* kinit lines 54-58: one turn of the descriptor loop, or the return
KiPages(t) ==
  /\ Running /\ pc[t] = "ki_pages"
  /\ IF i < NPAGES
       THEN /\ pages' = [pages EXCEPT ![i] = [ref |-> 0, lock |-> 0, init |-> TRUE]]
            /\ i' = i + 1
            /\ UNCHANGED <<pc, started>>
       ELSE /\ pc' = [pc EXCEPT ![t] = "idle"]
            /\ started' = TRUE
            /\ UNCHANGED <<pages, i>>
  /\ UNCHANGED <<pa, dec, pfn, r, p, kmem, mem, owners, lastfree, nshare, nmisuse, panicked, dtbvars>>

\* ------------------------------------------------------------ kfree1
InKalloc(t) ==
  pc[t] \in {"ka_acq", "ka_pop", "ka_pdacq", "ka_ref", "ka_memset", "ka_ret"}

\* kfree line 77: kfree1(pa, 1); the caller gives up its reference to pa.
\* A kfree of a frame that nobody owns (a second release) is counted; the
\* clients call it only while no kalloc is under way.
KfreeCall(t, a) ==
  /\ Running /\ started /\ pc[t] = "idle"
  /\ pa' = [pa EXCEPT ![t] = a]
  /\ dec' = [dec EXCEPT ![t] = 1]
  /\ pc' = [pc EXCEPT ![t] = "kf_check"]
  /\ IF a \in Frames /\ owners[a] = 0
       THEN /\ \A u \in Threads : ~InKalloc(u)
            /\ nmisuse' = nmisuse + 1
            /\ owners' = owners
       ELSE /\ owners' = [f \in Frames |-> IF f = a THEN owners[f] - 1 ELSE owners[f]]
            /\ nmisuse' = nmisuse
  /\ UNCHANGED <<pfn, r, p, i, kmem, pages, mem, started, lastfree, nshare, panicked, dtbvars>>

\* kfree1 lines 87-92 / 105-106: the argument check and
\* pfn = pa_to_pfn(pa)
KfCheck(t) ==
  /\ Running /\ pc[t] = "kf_check"
  /\ IF KfreeBadArg(pa[t])
       THEN /\ Panic(t, "kfree")
            /\ UNCHANGED pfn
       ELSE IF pa_to_pfn(pa[t]) = -1
         THEN /\ Panic(t, "pa_to_pfn")
              /\ UNCHANGED pfn
         ELSE /\ pfn' = [pfn EXCEPT ![t] = pa_to_pfn(pa[t])]
              /\ pc' = [pc EXCEPT ![t] = IF dec[t] # 0 THEN "kf_pdacq" ELSE "kf_nodec"]
              /\ UNCHANGED panicked
  /\ UNCHANGED <<pa, dec, r, p, i, kmem, pages, mem, owners, started, lastfree, nshare, nmisuse, dtbvars>>

\* KfPdAcquire without taking the lock
KfPdAcquireNoLock(t) ==
  /\ Running /\ pc[t] = "kf_pdacq"
  /\ pages' = pages
  /\ pc' = [pc EXCEPT ![t] = "kf_dec"]
  /\ UNCHANGED <<locals, kmem, mem, owners, started, lastfree, nshare, nmisuse, panicked, dtbvars>>

\* kfree1 line 94: acquire(&pd->lock)
KfPdAcquire(t) ==
  /\ Running /\ pc[t] = "kf_pdacq"
  /\ pages[pfn[t]].lock = 0
  /\ pages' = [pages EXCEPT ![pfn[t]].lock = t]
  /\ pc' = [pc EXCEPT ![t] = "kf_dec"]
  /\ UNCHANGED <<locals, kmem, mem, owners, started, lastfree, nshare, nmisuse, panicked, dtbvars>>

\* KfDec without the decrement of line 99
KfDecKeepsCount(t) ==
  /\ Running /\ pc[t] = "kf_dec"
  /\ IF pages[pfn[t]].ref <= 0
       THEN /\ Panic(t, "kfree: page has zero or negative ref count")
            /\ UNCHANGED pages
       ELSE /\ pages' = [pages EXCEPT ![pfn[t]].lock = 0]
            /\ pc' = [pc EXCEPT ![t] = "kf_memset"]
            /\ UNCHANGED panicked
  /\ UNCHANGED <<locals, kmem, mem, owners, started, lastfree, nshare, nmisuse, dtbvars>>

\* KfDec with the check of line 96 as pd->ref < 0
KfDecChecksNegative(t) ==
  /\ Running /\ pc[t] = "kf_dec"
  /\ IF pages[pfn[t]].ref < 0
       THEN /\ Panic(t, "kfree: page has zero or negative ref count")
            /\ UNCHANGED pages
       ELSE /\ pages' = [pages EXCEPT ![pfn[t]].ref = @ - 1,
                                      ![pfn[t]].lock = 0]
            /\ pc' = [pc EXCEPT ![t] = "kf_memset"]
            /\ UNCHANGED panicked
  /\ UNCHANGED <<locals, kmem, mem, owners, started, lastfree, nshare, nmisuse, dtbvars>>

\* KfDec without the release of line 103
KfDecKeepsPdLock(t) ==
  /\ Running /\ pc[t] = "kf_dec"
  /\ IF pages[pfn[t]].ref <= 0
       THEN /\ Panic(t, "kfree: page has zero or negative ref count")
            /\ UNCHANGED pages
       ELSE /\ pages' = [pages EXCEPT ![pfn[t]].ref = @ - 1]
            /\ pc' = [pc EXCEPT ![t] = "kf_memset"]
            /\ UNCHANGED panicked
  /\ UNCHANGED <<locals, kmem, mem, owners, started, lastfree, nshare, nmisuse, dtbvars>>

\* KfDec without the check of lines 96-97
KfDecNoCheck(t) ==
  /\ Running /\ pc[t] = "kf_dec"
  /\ pages' = [pages EXCEPT ![pfn[t]].ref = @ - 1,
                            ![pfn[t]].lock = 0]
  /\ pc' = [pc EXCEPT ![t] = "kf_memset"]
  /\ UNCHANGED panicked
  /\ UNCHANGED <<locals, kmem, mem, owners, started, lastfree, nshare, nmisuse, dtbvars>>

\* kfree1 lines 96-103: the check of the count, --pd->ref (the branch on
\* the new count only prints) and release(&pd->lock); control then
\* reaches line 113
KfDec(t) ==
  /\ Running /\ pc[t] = "kf_dec"
  /\ IF pages[pfn[t]].ref <= 0
       THEN /\ Panic(t, "kfree: page has zero or negative ref count")
            /\ UNCHANGED pages
       ELSE /\ pages' = [pages EXCEPT ![pfn[t]].ref = @ - 1,
                                      ![pfn[t]].lock = 0]
            /\ pc' = [pc EXCEPT ![t] = "kf_memset"]
            /\ UNCHANGED panicked
  /\ UNCHANGED <<locals, kmem, mem, owners, started, lastfree, nshare, nmisuse, dtbvars>>

\* kfree1 lines 108-109: the check of the count, without the lock
KfNoDec(t) ==
  /\ Running /\ pc[t] = "kf_nodec"
  /\ IF pages[pfn[t]].ref # 0
       THEN Panic(t, "kfree for freerange: page has non-zero ref count")
       ELSE /\ pc' = [pc EXCEPT ![t] = "kf_memset"]
            /\ UNCHANGED panicked
  /\ UNCHANGED <<locals, kmem, pages, mem, owners, started, lastfree, nshare, nmisuse, dtbvars>>

\* kfree1 line 113: memset(pa, 1, PGSIZE)
KfMemset(t) ==
  /\ Running /\ pc[t] = "kf_memset"
  /\ mem' = [mem EXCEPT ![pa[t]] = [link |-> FillWord(FreeFill), body |-> FreeFill]]
  /\ pc' = [pc EXCEPT ![t] = "kf_acq"]
  /\ UNCHANGED <<locals, kmem, pages, owners, started, lastfree, nshare, nmisuse, panicked, dtbvars>>

\* kfree1 line 117: acquire(&kmem.lock)
KfAcquire(t) ==
  /\ Running /\ pc[t] = "kf_acq"
  /\ kmem.lock = 0
  /\ kmem' = [kmem EXCEPT !.lock = t]
  /\ pc' = [pc EXCEPT ![t] = "kf_push"]
  /\ UNCHANGED <<locals, pages, mem, owners, started, lastfree, nshare, nmisuse, panicked, dtbvars>>

\* KfPush without lines 118-119: the frame is not linked in
KfPushDropsFrame(t) ==
  /\ Running /\ pc[t] = "kf_push"
  /\ mem' = mem
  /\ kmem' = [lock |-> 0, freelist |-> kmem.freelist]
  /\ lastfree' = pa[t]
  /\ pa' = [pa EXCEPT ![t] = 0]
  /\ dec' = [dec EXCEPT ![t] = 0]
  /\ pfn' = [pfn EXCEPT ![t] = 0]
  /\ IF dec[t] # 0
       THEN /\ pc' = [pc EXCEPT ![t] = "idle"]
            /\ p' = p
       ELSE /\ pc' = [pc EXCEPT ![t] = "fr_loop"]
            /\ p' = p + PGSIZE
  /\ UNCHANGED <<r, i, pages, owners, started, nshare, nmisuse, panicked, dtbvars>>

\* KfPush with the frame linked in behind the head of a non-empty list
KfPushBehindHead(t) ==
  /\ Running /\ pc[t] = "kf_push"
  /\ IF kmem.freelist \in Frames
       THEN /\ mem' = [mem EXCEPT ![pa[t]].link = mem[kmem.freelist].link,
                                  ![kmem.freelist].link = pa[t]]
            /\ kmem' = [lock |-> 0, freelist |-> kmem.freelist]
       ELSE /\ mem' = [mem EXCEPT ![pa[t]].link = kmem.freelist]
            /\ kmem' = [lock |-> 0, freelist |-> pa[t]]
  /\ lastfree' = pa[t]
  /\ pa' = [pa EXCEPT ![t] = 0]
  /\ dec' = [dec EXCEPT ![t] = 0]
  /\ pfn' = [pfn EXCEPT ![t] = 0]
  /\ IF dec[t] # 0
       THEN /\ pc' = [pc EXCEPT ![t] = "idle"]
            /\ p' = p
       ELSE /\ pc' = [pc EXCEPT ![t] = "fr_loop"]
            /\ p' = p + PGSIZE
  /\ UNCHANGED <<r, i, pages, owners, started, nshare, nmisuse, panicked, dtbvars>>

\* kfree1 lines 118-120: r->next = kmem.freelist; kmem.freelist = r;
\* release(&kmem.lock); and the return: to kfree's caller, or to
\* freerange's loop (line 66, p += PGSIZE)
KfPush(t) ==
  /\ Running /\ pc[t] = "kf_push"
  /\ mem' = [mem EXCEPT ![pa[t]].link = kmem.freelist]
  /\ kmem' = [lock |-> 0, freelist |-> pa[t]]
  /\ lastfree' = pa[t]
  /\ pa' = [pa EXCEPT ![t] = 0]
  /\ dec' = [dec EXCEPT ![t] = 0]
  /\ pfn' = [pfn EXCEPT ![t] = 0]
  /\ IF dec[t] # 0
       THEN /\ pc' = [pc EXCEPT ![t] = "idle"]
            /\ p' = p
       ELSE /\ pc' = [pc EXCEPT ![t] = "fr_loop"]
            /\ p' = p + PGSIZE
  /\ UNCHANGED <<r, i, pages, owners, started, nshare, nmisuse, panicked, dtbvars>>

\* ------------------------------------------------------------ kalloc
KallocCall(t) ==
  /\ Running /\ started /\ pc[t] = "idle"
  /\ pc' = [pc EXCEPT ![t] = "ka_acq"]
  /\ UNCHANGED <<locals, kmem, pages, mem, owners, started, lastfree, nshare, nmisuse, panicked, dtbvars>>

\* kalloc line 133: acquire(&kmem.lock)
KaAcquire(t) ==
  /\ Running /\ pc[t] = "ka_acq"
  /\ kmem.lock = 0
  /\ kmem' = [kmem EXCEPT !.lock = t]
  /\ pc' = [pc EXCEPT ![t] = "ka_pop"]
  /\ UNCHANGED <<locals, pages, mem, owners, started, lastfree, nshare, nmisuse, panicked, dtbvars>>

\* The word r->next: the link of frame a; a read through a pointer that
\* is no frame yields any word.
Words == Frames \cup {0, FillWord(FreeFill), FillWord(AllocFill)}
NextOf(a) == IF a \in Frames THEN {mem[a].link} ELSE Words

\* KaTest without the test of r at line 139
KaTestNoNullCheck(t, a) ==
  IF pa_to_pfn(a) = -1
    THEN /\ Panic(t, "pa_to_pfn")
         /\ UNCHANGED pfn
    ELSE /\ pfn' = [pfn EXCEPT ![t] = pa_to_pfn(a)]
         /\ pc' = [pc EXCEPT ![t] = "ka_pdacq"]
         /\ UNCHANGED panicked

\* kalloc lines 139-141 for hart t with r = a: if(r) pfn = pa_to_pfn(r);
\* else on to the return
KaTest(t, a) ==
  IF a = 0
    THEN /\ pc' = [pc EXCEPT ![t] = "ka_ret"]
         /\ UNCHANGED <<pfn, panicked>>
    ELSE IF pa_to_pfn(a) = -1
      THEN /\ Panic(t, "pa_to_pfn")
           /\ UNCHANGED pfn
      ELSE /\ pfn' = [pfn EXCEPT ![t] = pa_to_pfn(a)]
           /\ pc' = [pc EXCEPT ![t] = "ka_pdacq"]
           /\ UNCHANGED panicked

\* KaPop without line 136: the head of the free list is not advanced
KaPopKeepsHead(t) ==
  /\ Running /\ pc[t] = "ka_pop"
  /\ r' = [r EXCEPT ![t] = kmem.freelist]
  /\ kmem' = [lock |-> 0, freelist |-> kmem.freelist]
  /\ lastfree' = 0
  /\ KaTest(t, kmem.freelist)
  /\ UNCHANGED <<pa, dec, p, i, pages, mem, owners, started, nshare, nmisuse, dtbvars>>

\* KaPop without the release of line 137
KaPopKeepsLock(t) ==
  /\ Running /\ pc[t] = "ka_pop"
  /\ r' = [r EXCEPT ![t] = kmem.freelist]
  /\ IF kmem.freelist # 0
       THEN \E w \in NextOf(kmem.freelist) : kmem' = [lock |-> t, freelist |-> w]
       ELSE kmem' = [lock |-> t, freelist |-> 0]
  /\ lastfree' = 0
  /\ KaTest(t, kmem.freelist)
  /\ UNCHANGED <<pa, dec, p, i, pages, mem, owners, started, nshare, nmisuse, dtbvars>>

\* kalloc lines 134-141: r = kmem.freelist; if(r) kmem.freelist = r->next;
\* release(&kmem.lock); then the test of r
KaPop(t) ==
  /\ Running /\ pc[t] = "ka_pop"
  /\ r' = [r EXCEPT ![t] = kmem.freelist]
  /\ IF kmem.freelist # 0
       THEN \E w \in NextOf(kmem.freelist) : kmem' = [lock |-> 0, freelist |-> w]
       ELSE kmem' = [lock |-> 0, freelist |-> 0]
  /\ lastfree' = 0
  /\ KaTest(t, kmem.freelist)
  /\ UNCHANGED <<pa, dec, p, i, pages, mem, owners, started, nshare, nmisuse, dtbvars>>

\* kalloc line 143: acquire(&pd->lock)
KaPdAcquire(t) ==
  /\ Running /\ pc[t] = "ka_pdacq"
  /\ pages[pfn[t]].lock = 0
  /\ pages' = [pages EXCEPT ![pfn[t]].lock = t]
  /\ pc' = [pc EXCEPT ![t] = "ka_ref"]
  /\ UNCHANGED <<locals, kmem, mem, owners, started, lastfree, nshare, nmisuse, panicked, dtbvars>>

\* KaRef without the increment of line 146
KaRefKeepsCount(t) ==
  /\ Running /\ pc[t] = "ka_ref"
  /\ IF pages[pfn[t]].ref # 0
       THEN /\ Panic(t, "kalloc: non-zero ref count on free page")
            /\ UNCHANGED pages
       ELSE /\ pages' = [pages EXCEPT ![pfn[t]].lock = 0]
            /\ pc' = [pc EXCEPT ![t] = "ka_memset"]
            /\ UNCHANGED panicked
  /\ UNCHANGED <<locals, kmem, mem, owners, started, lastfree, nshare, nmisuse, dtbvars>>

\* kalloc lines 144-147: the check of the count, ++pd->ref and
\* release(&pd->lock)
KaRef(t) ==
  /\ Running /\ pc[t] = "ka_ref"
  /\ IF pages[pfn[t]].ref # 0
       THEN /\ Panic(t, "kalloc: non-zero ref count on free page")
            /\ UNCHANGED pages
       ELSE /\ pages' = [pages EXCEPT ![pfn[t]].ref = @ + 1,
                                      ![pfn[t]].lock = 0]
            /\ pc' = [pc EXCEPT ![t] = "ka_memset"]
            /\ UNCHANGED panicked
  /\ UNCHANGED <<locals, kmem, mem, owners, started, lastfree, nshare, nmisuse, dtbvars>>

\* KaMemset with the fill byte of the release path
KaMemsetFreeFill(t) ==
  /\ Running /\ pc[t] = "ka_memset"
  /\ mem' = [mem EXCEPT ![r[t]] = [link |-> FillWord(FreeFill), body |-> FreeFill]]
  /\ pc' = [pc EXCEPT ![t] = "ka_ret"]
  /\ UNCHANGED <<locals, kmem, pages, owners, started, lastfree, nshare, nmisuse, panicked, dtbvars>>

\* kalloc line 149: memset((char*)r, 5, PGSIZE)
KaMemset(t) ==
  /\ Running /\ pc[t] = "ka_memset"
  /\ mem' = [mem EXCEPT ![r[t]] = [link |-> FillWord(AllocFill), body |-> AllocFill]]
  /\ pc' = [pc EXCEPT ![t] = "ka_ret"]
  /\ UNCHANGED <<locals, kmem, pages, owners, started, lastfree, nshare, nmisuse, panicked, dtbvars>>

\* kalloc line 153: return (void*)r; the caller now holds r
KaReturn(t) ==
  /\ Running /\ pc[t] = "ka_ret"
  /\ owners' = [f \in Frames |-> IF f = r[t] THEN owners[f] + 1 ELSE owners[f]]
  /\ r' = [r EXCEPT ![t] = 0]
  /\ pfn' = [pfn EXCEPT ![t] = 0]
  /\ pc' = [pc EXCEPT ![t] = "idle"]
  /\ UNCHANGED <<pa, dec, p, i, kmem, pages, mem, started, lastfree, nshare, nmisuse, panicked, dtbvars>>

\* ----------------------------------------------------------- clients
\* Hart t, outside the allocator, records one more ownership reference
\* to the owned frame f: the count of f goes up by one under the
\* descriptor's lock.
Share(t, f) ==
  /\ Running /\ started /\ pc[t] = "idle"
  /\ owners[f] > 0 /\ nshare < MaxShare
  /\ pages[pa_to_pfn(f)].lock = 0
  /\ pages' = [pages EXCEPT ![pa_to_pfn(f)].ref = @ + 1]
  /\ owners' = [owners EXCEPT ![f] = @ + 1]
  /\ nshare' = nshare + 1
  /\ UNCHANGED <<pc, locals, kmem, mem, started, lastfree, nmisuse, panicked, dtbvars>>

\* Hart t, outside the allocator, writes data into the owned frame f.
ClientWrite(t, f, w) ==
  /\ Running /\ started /\ pc[t] = "idle"
  /\ owners[f] > 0
  /\ mem[f] # [link |-> w, body |-> DataFill]
  /\ mem' = [mem EXCEPT ![f] = [link |-> w, body |-> DataFill]]
  /\ UNCHANGED <<pc, locals, kmem, pages, owners, started, lastfree, nshare, nmisuse, panicked, dtbvars>>

\* Hart t, outside the allocator, calls pa_to_pfn(a)
PfnCall(t, a) ==
  /\ Running /\ started /\ pc[t] = "idle"
  /\ pa' = [pa EXCEPT ![t] = a]
  /\ pc' = [pc EXCEPT ![t] = "pfn_check"]
  /\ UNCHANGED <<dec, pfn, r, p, i, kmem, pages, mem, owners, started, lastfree, nshare, nmisuse, panicked, dtbvars>>

\* pa_to_pfn lines 39-42: the check of the address, and the index
PfnCheck(t) ==
  /\ Running /\ pc[t] = "pfn_check"
  /\ IF pa_to_pfn(pa[t]) = -1
       THEN /\ Panic(t, "pa_to_pfn")
            /\ UNCHANGED pfn
       ELSE /\ pfn' = [pfn EXCEPT ![t] = pa_to_pfn(pa[t])]
            /\ pc' = [pc EXCEPT ![t] = "pfn_ret"]
            /\ UNCHANGED panicked
  /\ UNCHANGED <<pa, dec, r, p, i, kmem, pages, mem, owners, started, lastfree, nshare, nmisuse, dtbvars>>

\* the caller of pa_to_pfn has its result
PfnReturn(t) ==
  /\ Running /\ pc[t] = "pfn_ret"
  /\ pa' = [pa EXCEPT ![t] = 0]
  /\ pfn' = [pfn EXCEPT ![t] = 0]
  /\ pc' = [pc EXCEPT ![t] = "idle"]
  /\ UNCHANGED <<dec, r, p, i, kmem, pages, mem, owners, started, lastfree, nshare, nmisuse, panicked, dtbvars>>

\* -------------------------------------------------------- dtb reader
\* dtb.c, run by the boot hart. The byte read by r->base[r->index++] is
\* recorded by its index in dtbop.last.
\* reader_skip line 70 / read_uint32 line 87: the bounds check
ReaderOutOfBound(n) ==
  reader.index >= reader.end \/ AddW(reader.index, n) > reader.end

\* a call reader_skip(r, n)
SkipCall(n) ==
  /\ Running /\ dtbop.pc = "idle"
  /\ dtbop' = [pc |-> "skip_check", n |-> n, i |-> 0,
               start |-> reader.index, last |-> -1]
  /\ UNCHANGED <<pc, locals, kmem, pages, mem, owners, started, lastfree,
                 nshare, nmisuse, panicked, reader>>

\* reader_skip lines 70-71
SkipCheck ==
  /\ Running /\ dtbop.pc = "skip_check"
  /\ IF ReaderOutOfBound(dtbop.n)
       THEN /\ Panic(BootCpu, "reader_skip out of bound")
            /\ UNCHANGED dtbop
       ELSE /\ dtbop' = [dtbop EXCEPT !.pc = "skip_loop", !.i = 0]
            /\ UNCHANGED <<pc, panicked>>
  /\ UNCHANGED <<locals, kmem, pages, mem, owners, started, lastfree,
                 nshare, nmisuse, reader>>

\* reader_skip lines 73-80: one turn of the loop, ch = r->base[r->index++],
\* or the return
SkipLoop ==
  /\ Running /\ dtbop.pc = "skip_loop"
  /\ IF dtbop.i < dtbop.n
       THEN /\ dtbop' = [dtbop EXCEPT !.last = reader.index, !.i = AddW(@, 1)]
            /\ reader' = [reader EXCEPT !.index = AddW(@, 1)]
       ELSE /\ dtbop' = [dtbop EXCEPT !.pc = "idle"]
            /\ UNCHANGED reader
  /\ UNCHANGED <<pc, locals, kmem, pages, mem, owners, started, lastfree,
                 nshare, nmisuse, panicked>>

\* a call read_uint32(r)
ReadCall ==
  /\ Running /\ dtbop.pc = "idle"
  /\ dtbop' = [pc |-> "rd_check", n |-> 4, i |-> 0,
               start |-> reader.index, last |-> -1]
  /\ UNCHANGED <<pc, locals, kmem, pages, mem, owners, started, lastfree,
                 nshare, nmisuse, panicked, reader>>

\* read_uint32 lines 87-91: the bounds check and the alignment check
ReadCheck ==
  /\ Running /\ dtbop.pc = "rd_check"
  /\ IF ReaderOutOfBound(4)
       THEN /\ Panic(BootCpu, "dtb: read_uint32: out of bound")
            /\ UNCHANGED dtbop
       ELSE IF (reader.index % 4) # 0
         THEN /\ Panic(BootCpu, "dtb: read_uint32: unaligned address")
              /\ UNCHANGED dtbop
         ELSE /\ dtbop' = [dtbop EXCEPT !.pc = "rd_bytes", !.i = 0]
              /\ UNCHANGED <<pc, panicked>>
  /\ UNCHANGED <<locals, kmem, pages, mem, owners, started, lastfree,
                 nshare, nmisuse, reader>>

\* read_uint32 lines 93-98: one of the four reads r->base[r->index++],
\* or the return
ReadBytes ==
  /\ Running /\ dtbop.pc = "rd_bytes"
  /\ IF dtbop.i < dtbop.n
       THEN /\ dtbop' = [dtbop EXCEPT !.last = reader.index, !.i = @ + 1]
            /\ reader' = [reader EXCEPT !.index = AddW(@, 1)]
       ELSE /\ dtbop' = [dtbop EXCEPT !.pc = "idle"]
            /\ UNCHANGED reader
  /\ UNCHANGED <<pc, locals, kmem, pages, mem, owners, started, lastfree,
                 nshare, nmisuse, panicked>>

\* One statement of kinit, freerange, kfree1 or kalloc by hart t
Step(t) ==
  \/ KiInitlock(t) \/ FrStart(t) \/ FrLoop(t) \/ KiPages(t)
  \/ KfCheck(t) \/ KfPdAcquire(t) \/ KfDec(t) \/ KfNoDec(t)
  \/ KfMemset(t) \/ KfAcquire(t) \/ KfPush(t)
  \/ KaAcquire(t) \/ KaPop(t) \/ KaPdAcquire(t)
  \/ KaRef(t) \/ KaMemset(t) \/ KaReturn(t)

\* the frames some client holds a reference to
Owned == {f \in Frames : owners[f] > 0}
AllIdle == \A t \in Threads : pc[t] = "idle"

\* Clients that keep to the contract and share no frame: kfree only of a
\* frame the caller got from kalloc and still holds
Next ==
  \E t \in Threads :
    \/ Step(t)
    \/ KallocCall(t)
    \/ \E a \in Owned : KfreeCall(t, a)
    \/ \E f \in Frames, w \in ClientWords : ClientWrite(t, f, w)

Spec == Init /\ [][Next]_vars

\* Every hart keeps running, and a hart that spins on a lock that is
\* free again and again gets it
Fairness ==
  \A t \in Threads :
    /\ WF_vars(Step(t))
    /\ SF_vars(KaAcquire(t)) /\ SF_vars(KfAcquire(t))
    /\ SF_vars(KaPdAcquire(t)) /\ SF_vars(KfPdAcquire(t))

SpecFair == Init /\ [][Next]_vars /\ Fairness

\* Clients that keep to the contract and share frames
NextShared ==
  \E t \in Threads :
    \/ Step(t)
    \/ KallocCall(t)
    \/ \E a \in Owned : KfreeCall(t, a)
    \/ \E f \in Frames : Share(t, f)

SpecShared == Init /\ [][NextShared]_vars

\* Clients that share no frame and pass any address to kfree, and that
\* call kalloc no more once they have released a frame nobody owned
NextMisuse ==
  \E t \in Threads :
    \/ Step(t)
    \/ nmisuse = 0 /\ KallocCall(t)
    \/ \E a \in TestAddrs : KfreeCall(t, a)

SpecMisuse == Init /\ [][NextMisuse]_vars

\* One operation at a time, by clients that keep to the contract
NextSeq ==
  \E t \in Threads :
    \/ Step(t)
    \/ AllIdle /\ KallocCall(t)
    \/ AllIdle /\ \E a \in Owned : KfreeCall(t, a)

SpecSeq == Init /\ [][NextSeq]_vars

\* Clients that keep to the contract, share no frame, and call pa_to_pfn
\* with any address
NextPfn ==
  \E t \in Threads :
    \/ Step(t)
    \/ KallocCall(t)
    \/ \E a \in Owned : KfreeCall(t, a)
    \/ \E a \in TestAddrs : PfnCall(t, a)
    \/ PfnCheck(t)
    \/ PfnReturn(t)

SpecPfn == Init /\ [][NextPfn]_vars

\* The reader alone, from any window, with calls of any length
InitDtb ==
  /\ InitAlloc
  /\ reader \in [index : Word, end : Word]
  /\ dtbop = DtbIdle

NextDtb ==
  \/ \E n \in Word : SkipCall(n)
  \/ SkipCheck
  \/ SkipLoop
  \/ ReadCall
  \/ ReadCheck
  \/ ReadBytes

SpecDtb == InitDtb /\ [][NextDtb]_vars

\* =================================================================
\* Properties
\* =================================================================
\* an address the allocator manages: frame-aligned, in [end_pg, PHYSTOP)
ValidFrame(a) == (a % PGSIZE) = 0 /\ end_pg <= a /\ a < PHYSTOP
InKfreePush(t) == pc[t] \in {"kf_memset", "kf_acq", "kf_push"}

\* C1: a kfree that leaves the count of a frame above 0 decrements and
\* stops: a frame whose count is above 0 is neither on the free list nor
\* on its way to it (in the scrub-and-push part of a kfree).
C1_SharedReleaseStops ==
  \A f \in Frames :
    Ref(f) > 0 =>
      /\ ~OnFreeList(f)
      /\ \A t \in Threads : ~(InKfreePush(t) /\ dec[t] = 1 /\ pa[t] = f)

\* C2: no frame is on the free list twice, no owned frame is on the free
\* list, and kalloc never returns (or is about to return to two callers)
\* a frame that somebody still owns.
C2_ExclusiveOwnership ==
  /\ NoDup(FreeSeq)
  /\ \A f \in Frames : owners[f] > 0 => ~OnFreeList(f)
  /\ \A t \in Threads :
       (pc[t] = "ka_ret" /\ r[t] # 0) =>
         /\ owners[r[t]] = 0
         /\ ~OnFreeList(r[t])
         /\ \A u \in Threads \ {t} : r[u] # r[t]
C2_Witness ==
  \E t \in Threads, f \in Frames :
    /\ pc[t] = "ka_ret" /\ r[t] \in Frames /\ r[t] # f
    /\ owners[f] > 0 /\ Len(FreeSeq) > 0

\* C3: every address on the free list is frame-aligned, lies in
\* [end_pg, PHYSTOP) and has a descriptor whose count is 0.
C3_FreeListInvariant ==
  \A k \in 1 .. Len(FreeSeq) :
    /\ ValidFrame(FreeSeq[k])
    /\ Ref(FreeSeq[k]) = 0
C3_Witness ==
  /\ started /\ Len(FreeSeq) = 2
  /\ \E t \in Threads : pc[t] = "kf_push"

\* C4: a kalloc that finds the free list empty goes straight to its
\* return with r = 0: it does not panic, does not go back to wait, and
\* changes no count, no frame and not the free list; its return changes
\* nothing either.
C4_ExhaustionRecoverable ==
  [][\A t \in Threads :
       /\ (pc[t] = "ka_pop" /\ kmem.freelist = 0 /\ pc'[t] # pc[t]) =>
            /\ pc'[t] = "ka_ret" /\ r'[t] = 0
            /\ panicked' = "none"
            /\ kmem'.freelist = 0
            /\ UNCHANGED <<pages, mem, owners>>
       /\ (pc[t] = "ka_ret" /\ r[t] = 0 /\ pc'[t] # pc[t]) =>
            /\ pc'[t] = "idle"
            /\ panicked' = "none"
            /\ UNCHANGED <<kmem, pages, mem, owners>>]_vars
C4_Witness ==
  \E t \in Threads :
    /\ pc[t] = "ka_ret" /\ r[t] = 0 /\ kmem.freelist = 0
    /\ panicked = "none" /\ Owned = Frames

Count(s, f) == Cardinality({k \in 1 .. Len(s) : s[k] = f})
\* the harts that popped frame f and have not yet raised its count
Popped(f) == {t \in Threads : pc[t] \in {"ka_pdacq", "ka_ref"} /\ r[t] = f}
\* the harts between the count check and the push of frame f
Pushing(f) == {t \in Threads : InKfreePush(t) /\ pa[t] = f}
KfreePanic == "kfree: page has zero or negative ref count"

\* C5: a kfree that finds the count of its frame at 0 panics and changes
\* nothing; no count goes below 0; and each frame is, after kinit, in
\* exactly one place: once on the free list, popped by one kalloc, owned
\* with count 1, or with the one kfree that took its count to 0. So of
\* two kfree calls on a frame of count 1 one pushes it, once, and the
\* other panics.
C5_NoDoubleFree ==
  /\ [](started =>
         \A f \in Frames :
           /\ Ref(f) >= 0
           /\ Count(FreeSeq, f) + Cardinality(Popped(f)) + Ref(f)
                + Cardinality(Pushing(f)) = 1)
  /\ [][\A t \in Threads :
         (pc[t] = "kf_dec" /\ Ref(pa[t]) = 0 /\ pc'[t] # pc[t]) =>
            /\ pc'[t] = "panic" /\ panicked' = KfreePanic
            /\ UNCHANGED <<kmem, pages, mem>>]_vars
\* two kfree calls raced on one frame: one is pushing it, the other panicked
C5_Witness ==
  \E t, u \in Threads :
    /\ t # u /\ pa[t] = pa[u] /\ dec[t] = 1 /\ dec[u] = 1
    /\ pc[t] = "panic" /\ panicked = KfreePanic
    /\ InKfreePush(u)

\* C6: a kfree of an address that is not frame-aligned or not in
\* [end_pg, PHYSTOP) panics at its argument check, before it changes a
\* count, a frame or the free list, and never goes on.
C6_KfreePrecondition ==
  [][\A t \in Threads :
       (pc[t] = "kf_check" /\ dec[t] = 1 /\ ~ValidFrame(pa[t]) /\ pc'[t] # pc[t]) =>
          /\ pc'[t] = "panic" /\ panicked' = "kfree"
          /\ UNCHANGED <<kmem, pages, mem>>]_vars
C6_Witness ==
  \E t \in Threads :
    /\ pc[t] = "panic" /\ panicked = "kfree" /\ pa[t] = PHYSTOP

\* the addresses of the sequence s
Range(s) == {s[k] : k \in 1 .. Len(s)}
\* the free list holds every frame exactly once
FullFreeList ==
  /\ Len(FreeSeq) = NFrames
  /\ NoDup(FreeSeq)
  /\ Range(FreeSeq) = Frames

\* C7: once kinit has returned and every call has completed with every
\* ownership reference released (shared ones included), the free list
\* holds each of the NFrames frames exactly once with count 0, so that
\* kalloc until exhaustion yields NFrames distinct frames.
C7_FreeListConservation ==
  (started /\ AllIdle /\ Owned = {}) =>
     /\ panicked = "none"
     /\ FullFreeList
     /\ \A f \in Frames : Ref(f) = 0

\* C8: with one operation at a time, a kalloc returns a frame that nobody
\* holds, and returns 0 exactly when the clients hold every frame (so
\* NFrames successive calls yield NFrames distinct frames and the next one
\* none); and a kalloc that follows a completed push of frame p pops p.
C8_LifoReuse ==
  /\ [](\A t \in Threads :
          pc[t] = "ka_ret" =>
            /\ (r[t] = 0) <=> (Owned = Frames)
            /\ r[t] # 0 => (r[t] \in Frames /\ owners[r[t]] = 0))
  /\ [][\A t \in Threads :
         (pc[t] = "ka_pop" /\ lastfree # 0 /\ pc'[t] # pc[t]) =>
            /\ r'[t] = lastfree
            /\ pc'[t] = "ka_pdacq"]_vars
\* the frame handed out first was released while the others were held,
\* and the next kalloc returns it
C8_Witness ==
  \E t \in Threads :
    /\ pc[t] = "ka_ret" /\ r[t] = PHYSTOP - PGSIZE
    /\ Owned = Frames \ {r[t]}

\* C9: the step by which kinit returns leaves the free list holding every
\* frame of [end_pg, PHYSTOP) exactly once and every descriptor with
\* count 0.
C9_BootstrapPostcondition ==
  [][(~started /\ started') =>
        /\ FullFreeList'
        /\ \A k \in 0 .. (NPAGES - 1) : pages'[k].ref = 0
        /\ panicked' = "none"]_vars
C9_Witness ==
  /\ started /\ AllIdle /\ Owned = {}
  /\ FullFreeList /\ nmisuse = 0 /\ lastfree = PHYSTOP - PGSIZE

\* C10: a kalloc about to return the frame r has left its count at 1, the
\* frame off the free list and every byte of it the allocation fill, which
\* is not the fill of the release path.
C10_KallocPostcondition ==
  \A t \in Threads :
    (pc[t] = "ka_ret" /\ r[t] # 0) =>
       /\ r[t] \in Frames
       /\ Ref(r[t]) = 1
       /\ ~OnFreeList(r[t])
       /\ mem[r[t]] = [link |-> FillWord(AllocFill), body |-> AllocFill]
       /\ AllocFill # FreeFill
       /\ FillWord(AllocFill) # FillWord(FreeFill)
\* a kalloc returns a frame that was released before, while the other
\* hart is inside kfree1
C10_Witness ==
  \E t, u \in Threads :
    /\ pc[t] = "ka_ret" /\ r[t] = PHYSTOP - PGSIZE
    /\ owners[end_pg] > 0
    /\ InKfreePush(u)

\* hart t is inside kalloc or kfree
InCall(t) == started /\ pc[t] \notin {"idle", "panic"}
\* hart t waits for a lock
AtAcquire(t) == pc[t] \in {"ka_acq", "kf_acq", "ka_pdacq", "kf_pdacq"}
\* the hart that holds the lock hart t waits for, 0 if the lock is free
HolderFor(t) ==
  IF pc[t] \in {"ka_acq", "kf_acq"} THEN kmem.lock ELSE pages[pfn[t]].lock

C12_FrameIndexMapping ==
  [][\A t \in Threads :
       (pc[t] = "pfn_check" /\ pc'[t] # pc[t]) =>
          IF ValidFrame(pa[t])
            THEN /\ pc'[t] = "pfn_ret"
                 /\ pfn'[t] = (pa[t] - end_pg) \div PGSIZE
                 /\ pfn'[t] \in 0 .. (NPAGES - 1)
                 /\ panicked' = "none"
            ELSE /\ pc'[t] = "panic"
                 /\ panicked' = "pa_to_pfn"]_vars

\* C13: when the no-decrement path of kfree1 reads the count of a
\* descriptor, kinit has already initialised that descriptor.
C13_BootstrapOrdering ==
  \A t \in Threads :
    pc[t] = "kf_nodec" => pages[pfn[t]].init

\* the descriptor locks hart t holds
PdLocksOf(t) == {k \in 0 .. (NPAGES - 1) : pages[k].lock = t}

\* C14: no hart holds the free-list lock and a descriptor lock at once;
\* a kalloc that goes for the descriptor lock has released the free-list
\* lock, and a kfree that goes for the free-list lock has released the
\* descriptor lock.
C14_LockDisjointness ==
  \A t \in Threads :
    /\ ~(kmem.lock = t /\ PdLocksOf(t) # {})
    /\ pc[t] \in {"ka_pdacq", "ka_ref"} => kmem.lock # t
    /\ pc[t] \in {"kf_acq", "kf_push"} => PdLocksOf(t) = {}
    /\ Cardinality(PdLocksOf(t)) <= 1
\* hart t pushes under the free-list lock after it released the
\* descriptor lock, which hart u now holds in kalloc
C14_Witness ==
  \E t, u \in Threads :
    /\ pc[t] = "kf_push" /\ dec[t] = 1 /\ kmem.lock = t
    /\ pc[u] = "ka_ref" /\ pages[pfn[u]].lock = u

\* the harts that take a step
Movers == {t \in Threads : pc'[t] # pc[t]}
\* the free-list head is written only by a hart that holds kmem.lock
HeadWriteLocked ==
  kmem'.freelist # kmem.freelist =>
    \E t \in Movers : kmem.lock = t
\* the count of descriptor k is written (changed, or set by kinit's
\* loop) only by a hart that holds the lock of descriptor k
RefWriteLocked(k) ==
  (pages'[k].ref # pages[k].ref \/ pages'[k].init # pages[k].init) =>
    \E t \in Movers : pages[k].lock = t

\* C15 as stated: every write of the free-list head is made under
\* kmem.lock and every write of a count, by any operation of the
\* allocator, under the lock of its descriptor.
C15_EveryWriteLocked ==
  [][/\ HeadWriteLocked
     /\ \A k \in 0 .. (NPAGES - 1) : RefWriteLocked(k)]_vars

\* C15, amended: every write of the free-list head is made under
\* kmem.lock, and every write of a count by kalloc or kfree, that is
\* after kinit has returned, under the lock of its descriptor.
C15_SharedStateDiscipline ==
  [][/\ HeadWriteLocked
     /\ started => \A k \in 0 .. (NPAGES - 1) : RefWriteLocked(k)]_vars
\* a kfree has lowered a count and a kalloc is about to raise one
C15_Witness ==
  \E t, u \in Threads :
    /\ pc[t] = "kf_memset" /\ dec[t] = 1
    /\ pc[u] = "ka_ref" /\ pages[pfn[u]].lock = u

\* C16: a kfree overwrites the frame only if its decrement took the
\* count to 0; a frame whose count stays above 0 keeps its content.
C16_ScrubOnlyOnLastRelease ==
  [][\A t \in Threads :
       (pc[t] = "kf_memset" /\ dec[t] = 1 /\ pc'[t] # pc[t]) =>
          (Ref(pa[t]) > 0 => mem'[pa[t]] = mem[pa[t]])]_vars

\* C17 as stated: after kinit, also while calls are under way, a frame is
\* on the free list if and only if its count is 0.
C17_FreeIffZero ==
  started => \A f \in Frames : OnFreeList(f) <=> (Ref(f) = 0)

\* C17, amended: after kinit a frame on the free list has count 0, and a
\* frame with count 0 is on the free list or in the hands of the one
\* kalloc that popped it and has not yet raised its count, or of the one
\* kfree that lowered its count and has not yet pushed it; with no call
\* under way a frame is on the free list if and only if its count is 0.
C17_FreeIffZeroAtRest ==
  started =>
    \A f \in Frames :
      /\ OnFreeList(f) => Ref(f) = 0
      /\ Ref(f) = 0 =>
           Count(FreeSeq, f) + Cardinality(Popped(f)) + Cardinality(Pushing(f)) = 1
      /\ AllIdle => (OnFreeList(f) <=> (Ref(f) = 0))
\* with no call under way some frames are owned and some are free
C17_Witness ==
  /\ started /\ AllIdle
  /\ \E f, g \in Frames : OnFreeList(f) /\ Ref(g) = 1 /\ owners[g] = 1
  /\ lastfree # 0 /\ lastfree # PHYSTOP - PGSIZE

\* C18: no count is ever below 0, whatever frame the clients pass to
\* kfree: the check and the decrement are made in one hold of the
\* descriptor lock, and a kfree that finds the count at 0 leaves it at 0.
C18_NonNegativeRef ==
  /\ [](\A k \in 0 .. (NPAGES - 1) : pages[k].ref >= 0)
  /\ [](\A t \in Threads : pc[t] = "kf_dec" => pages[pfn[t]].lock = t)
  /\ [][\A t \in Threads :
         (pc[t] = "kf_dec" /\ pc'[t] = "panic") =>
            pages'[pfn[t]].ref = pages[pfn[t]].ref]_vars
\* a kfree of a free frame panicked and the count of the frame is 0
C18_Witness ==
  \E t \in Threads :
    /\ pc[t] = "panic" /\ panicked = KfreePanic
    /\ pa[t] \in Frames /\ Ref(pa[t]) = 0 /\ OnFreeList(pa[t])

\* C19: with clients that kfree only frames they got from kalloc and
\* still hold, no panic is reached, during kinit or after it.
C19_NoPanicUnderCorrectUse ==
  /\ panicked = "none"
  /\ \A t \in Threads : pc[t] # "panic"
\* a kalloc passed its check of the count on a frame that was released
\* before, while the other hart is in kfree
C19_Witness ==
  \E t, u \in Threads :
    /\ pc[t] = "ka_memset" /\ r[t] = PHYSTOP - PGSIZE /\ owners[PHYSTOP - 2 * PGSIZE] > 0
    /\ pc[u] = "kf_dec"

\* C20: every byte that reader_skip and read_uint32 read is at an index
\* of the window [index, end) the reader had when the call began; a call
\* that would read past end panics instead.
C20_ReaderBoundsChecked ==
  dtbop.last # -1 =>
    /\ dtbop.start <= dtbop.last
    /\ dtbop.last < reader.end

====
